---- MODULE Spec2Model ----
(***************************************************************************)
(* Model of crawler.py: RobloxGameScraper.                                 *)
(*   fetch_game_ids_from_api  cursor-paginated listing loop                *)
(*   fetch_game_details       one bulk detail request, retried on 429      *)
(*   scrape_games             batches of batch_size ids, linear join       *)
(*   save_to_csv / __main__   the three stages in sequence                 *)
(* The two HTTP endpoints are the environment: each request is answered    *)
(* by a response chosen from a small set of statuses and bodies.           *)
(***************************************************************************)
EXTENDS Integers, Sequences, FiniteSets, TLC

\* ---------------------------------------------------------------- bounds
MaxGames == 3        \* max_games is drawn from 0..MaxGames and the default
MaxPages == 2        \* the listing endpoint serves at most this many pages
MaxRetries == 2      \* 429 answers the detail endpoint gives in one run
LongLen  == 60       \* number of games on a long listing page
LongPages == 2       \* only the first LongPages pages may be long

\* ------------------------------------------------------ program constants
batch_size      == 50
DefaultMaxGames == 60000
ForeignId       == 999

\* ------------------------------------------------------------ JSON values
Absent     == -1            \* key missing from a JSON object (.get gives None)
NoToken    == "None"        \* Python None as a page token
EmptyToken == ""            \* an empty-string page token
AbsentName == "<absent>"

Min(a, b) == IF a < b THEN a ELSE b

\* the test of the id missing
TruthyIdAlways(id) == TRUE

\* `if x:` on an integer or None
TruthyId(id) == id # Absent /\ id # 0

\* the test of the token missing
TruthyTokenAlways(t) == TRUE

\* `if sorts_page_token:` / `if not sorts_page_token:`
TruthyToken(t) == t # NoToken /\ t # EmptyToken

\* dict.get(key, default) on a value that may be missing
GetOr(v, default) == IF v = Absent THEN default ELSE v
GetNameOr(v, default) == IF v = AbsentName THEN default ELSE v

\* the slice forgotten: the whole accumulator is returned
SliceWhole(s, n) == s

\* all_game_data[:max_games], max_games >= 0
Slice(s, n) == SubSeq(s, 1, Min(n, Len(s)))

\* ------------------------------------------------- listing endpoint bodies
Game(id, pcnt, up, down) ==
    [ok |-> TRUE, universeId |-> id, name |-> "listed",
     playerCount |-> pcnt, totalUpVotes |-> up, totalDownVotes |-> down]

\* an element of a "games" list that is not a JSON object: game.get raises
BadGame == [ok |-> FALSE, universeId |-> Absent, name |-> AbsentName,
            playerCount |-> Absent, totalUpVotes |-> Absent,
            totalDownVotes |-> Absent]

SortsEmpty == << >>
SortsTwo   == << <<Game(1, 10, 11, 12)>>,
                 <<Game(Absent, 13, 14, 15), Game(2, Absent, Absent, Absent)>> >>
SortsDup   == << <<Game(1, 20, 21, 22), Game(0, 23, 24, 25)>>,
                 <<[Game(1, 26, 27, 28) EXCEPT !.name = AbsentName]>> >>
SortsBad   == << <<Game(3, 30, 31, 32), Game(4, 36, 37, 38), BadGame,
                   Game(2, 33, 34, 35)>> >>
SortsLong(k) ==
    << [j \in 1..LongLen |->
          Game((k - 1) * LongLen + j, j, j + 1, j + 2)] >>

PageSorts(k) ==
    {SortsEmpty, SortsTwo, SortsDup, SortsBad}
    \cup (IF k <= LongPages THEN {SortsLong(k)} ELSE {})

\* the next-page token carried by the k-th page of the listing
TokenOf(k) ==
    IF k = 1 THEN "t1" ELSE IF k = 2 THEN "t2" ELSE IF k = 3 THEN "t3" ELSE "t4"

ListResponse(st, parsable, sorts, next) ==
    [status |-> st, parsable |-> parsable, sorts |-> sorts, next |-> next]

\* the answers the listing endpoint may give to the k-th request when it
\* serves `pages` pages: a next cursor is present exactly on pages before
\* the last one.  The body of a failed response is never read by the code;
\* the 500 answer carries a well-formed page, the 429 answer none.
ListingResponses(k, pages) ==
    {ListResponse(429, FALSE, << >>, NoToken),
     ListResponse(500, TRUE, SortsTwo, IF k < pages THEN TokenOf(k) ELSE NoToken),
     ListResponse(200, FALSE, << >>, NoToken)}
    \cup {ListResponse(200, TRUE, s, n) :
            s \in PageSorts(k),
            n \in IF k < pages THEN {TokenOf(k)} ELSE {NoToken, EmptyToken}}

\* ------------------------------------------------ fetch_game_ids_from_api
RECURSIVE Flatten(_)
\* for sort in sorts: for game in games  -- the items in visiting order
Flatten(sorts) ==
    IF sorts = << >> THEN << >> ELSE Head(sorts) \o Flatten(Tail(sorts))

BasicRecord(game) ==
    [UniverseId  |-> game.universeId,
     Name        |-> GetNameOr(game.name, "N/A"),
     PlayerCount |-> GetOr(game.playerCount, 0),
     Upvotes     |-> GetOr(game.totalUpVotes, 0),
     Downvotes   |-> GetOr(game.totalDownVotes, 0)]

\* index of the first item of the page that makes game.get raise, or one
\* past the end when every item is a JSON object
FirstBad(games) ==
    LET bad == {k \in 1..Len(games) : ~games[k].ok} IN
    IF bad = {} THEN Len(games) + 1
    ELSE CHOOSE k \in bad : \A j \in bad : k <= j

\* if game_data["UniverseId"]:
KeepRecord(game_data) == TruthyId(game_data.UniverseId)

\* the records of a page dropped when one of its items fails
AppendGamesRollback(acc, games) ==
    LET visited == SubSeq(games, 1, FirstBad(games) - 1)
        records == [k \in 1..Len(visited) |-> BasicRecord(visited[k])]
    IN [data   |-> IF FirstBad(games) <= Len(games) THEN acc
                   ELSE acc \o SelectSeq(records, KeepRecord),
        raised |-> FirstBad(games) <= Len(games)]

\* the records of a page placed before the accumulated ones
AppendGamesFront(acc, games) ==
    LET visited == SubSeq(games, 1, FirstBad(games) - 1)
        records == [k \in 1..Len(visited) |-> BasicRecord(visited[k])]
    IN [data   |-> SelectSeq(records, KeepRecord) \o acc,
        raised |-> FirstBad(games) <= Len(games)]

\* the body of the try block up to the token update: appends the records of
\* the items visited, in order; raised = TRUE when an item made game.get
\* raise, which ends the visit there
AppendGames(acc, games) ==
    LET visited == SubSeq(games, 1, FirstBad(games) - 1)
        records == [k \in 1..Len(visited) |-> BasicRecord(visited[k])]
    IN [data   |-> acc \o SelectSeq(records, KeepRecord),
        raised |-> FirstBad(games) <= Len(games)]

VARIABLES
    pc,                 \* position of __main__
    max_games,          \* argument of fetch_game_ids_from_api
    totalPages,         \* environment: pages the listing endpoint serves
    all_game_data,      \* accumulator of fetch_game_ids_from_api
    sorts_page_token,   \* pagination cursor
    broke,              \* the while loop was left by a break
    listReqs,           \* history: sortsPageToken parameter of each request
    listResps,          \* history: the listing responses received
    basic_game_data,    \* return value of fetch_game_ids_from_api
    i,                  \* loop variable of scrape_games
    retries,            \* number of 429 answers so far (calls at line 79)
    detailCalls,        \* history: ids and response of each detail request
    games_data,         \* accumulator of scrape_games
    detailed_games_data,\* return value of scrape_games
    csv,                \* rows of the output file
    writes              \* number of times the output file was written

vars == <<pc, max_games, totalPages, all_game_data, sorts_page_token, broke,
          listReqs, listResps, basic_game_data, i, retries, detailCalls,
          games_data, detailed_games_data, csv, writes>>

listVars   == <<all_game_data, sorts_page_token, broke, listReqs, listResps>>
scrapeVars == <<i, retries, detailCalls, games_data>>

Init ==
    /\ pc = "fetch_ids"
    /\ max_games \in (0..MaxGames) \cup {DefaultMaxGames}
    /\ totalPages \in 1..MaxPages
    /\ all_game_data = << >>
    /\ sorts_page_token = NoToken
    /\ broke = FALSE
    /\ listReqs = << >>
    /\ listResps = << >>
    /\ basic_game_data = << >>
    /\ i = 0
    /\ retries = 0
    /\ detailCalls = << >>
    /\ games_data = << >>
    /\ detailed_games_data = << >>
    /\ csv = << >>
    /\ writes = 0

\* while True
WhileCondAlways(data, max) == TRUE

\* while len(all_game_data) < max_games
WhileCond(data, max) == Len(data) < max

\* the status check missing
ListStatusOk(st) == FALSE

\* response.status_code != 200
ListStatusFailed(st) == st # 200

\* the token never placed in params
ParamTokenNone(t) == NoToken

\* the token placed in params: only a truthy token is sent
ParamToken(t) == IF TruthyToken(t) THEN t ELSE NoToken

\* one iteration of the while loop: request, response, processing
FetchPage ==
    /\ pc = "fetch_ids"
    /\ ~broke
    /\ WhileCond(all_game_data, max_games)
    /\ \E resp \in ListingResponses(Len(listReqs) + 1, totalPages) :
         /\ listReqs' = Append(listReqs, ParamToken(sorts_page_token))
         /\ listResps' = Append(listResps, resp)
         /\ IF ListStatusFailed(resp.status) \/ ~resp.parsable
              THEN /\ broke' = TRUE
                   /\ UNCHANGED <<all_game_data, sorts_page_token>>
              ELSE LET r == AppendGames(all_game_data, Flatten(resp.sorts)) IN
                   /\ all_game_data' = r.data
                   /\ IF r.raised
                        THEN /\ broke' = TRUE
                             /\ UNCHANGED sorts_page_token
                        ELSE /\ sorts_page_token' = resp.next
                             /\ broke' = ~TruthyToken(resp.next)
    /\ UNCHANGED <<pc, max_games, totalPages, basic_game_data, scrapeVars,
                   detailed_games_data, csv, writes>>

\* return all_game_data[:max_games]; __main__ goes on to scrape_games
FetchReturn ==
    /\ pc = "fetch_ids"
    /\ broke \/ ~WhileCond(all_game_data, max_games)
    /\ basic_game_data' = Slice(all_game_data, max_games)
    /\ pc' = "scrape"
    /\ UNCHANGED <<max_games, totalPages, listVars, scrapeVars,
                   detailed_games_data, csv, writes>>

\* ------------------------------------------------- detail endpoint bodies
Detail(id) ==
    [ok |-> TRUE, id |-> id, name |-> "detailed", genre |-> "rpg",
     visits |-> 7]

\* an element of the data list that makes the mapping raise (not a JSON
\* object, or a creator that is not an object)
BadDetail == [ok |-> FALSE, id |-> Absent, name |-> AbsentName,
              genre |-> AbsentName, visits |-> Absent]

Reverse(s) == [k \in 1..Len(s) |-> s[Len(s) + 1 - k]]

\* the data lists the detail endpoint may answer a request for `ids` with;
\* `all` are the ids of the whole basic list
DetailLists(ids, all) ==
    { [k \in 1..Len(ids) |-> Detail(ids[k])],
      Reverse([k \in 1..Len(ids) |-> Detail(ids[k])]),
      <<Detail(ids[1])>>,
      <<[Detail(Absent) EXCEPT !.name = AbsentName, !.visits = Absent],
        Detail(ForeignId), Detail(all[1]),
        Detail(ids[Len(ids)]), Detail(ids[Len(ids)])>>,
      <<Detail(ids[1]), BadDetail>> }

DetailResponse(st, kind, data) == [status |-> st, kind |-> kind, data |-> data]

\* kind: "unparsable" (response.json() raises), "nodata" (a JSON object
\* without the key "data"), "list" (a JSON object with a data list).
\* d is the number of 429 answers given so far.  The body of a failed
\* response is never read by the code; the 500 answer carries a full list.
DetailResponses(ids, all, d) ==
    (IF d < MaxRetries THEN {DetailResponse(429, "unparsable", << >>)} ELSE {})
    \cup {DetailResponse(500, "list", [k \in 1..Len(ids) |-> Detail(ids[k])]),
          DetailResponse(200, "unparsable", << >>),
          DetailResponse(200, "nodata", << >>)}
    \cup {DetailResponse(200, "list", l) : l \in DetailLists(ids, all)}

\* ----------------------------------------------------- fetch_game_details
DetailRecord(game) ==
    [UniverseId |-> game.id,
     Name       |-> GetNameOr(game.name, "N/A"),
     Genre      |-> GetNameOr(game.genre, "N/A"),
     Visits     |-> GetOr(game.visits, 0)]

\* the 429 branch missing: a 429 is handled like any other failed status
RateLimitedNever(st) == FALSE

\* response.status_code == 429
RateLimited(st) == st = 429

\* the status check missing
DetailStatusOk(st) == FALSE

\* response.status_code != 200
DetailStatusFailed(st) == st # 200

\* the value of one call that is not rate limited; none = TRUE stands for
\* the Python value None (the function ran off its end without a return)
ListResult(recs) == [none |-> FALSE, recs |-> recs]
NoneResult       == [none |-> TRUE, recs |-> << >>]

DetailValue(resp) ==
    IF DetailStatusFailed(resp.status) THEN ListResult(<< >>)
    ELSE IF resp.kind = "unparsable" THEN ListResult(<< >>)
    ELSE IF resp.kind = "nodata" THEN NoneResult
    ELSE IF \E k \in 1..Len(resp.data) : ~resp.data[k].ok
           THEN ListResult(<< >>)
    ELSE ListResult([k \in 1..Len(resp.data) |-> DetailRecord(resp.data[k])])

\* ------------------------------------------------------------ scrape_games
game_data == basic_game_data

universe_ids == [k \in 1..Len(game_data) |-> game_data[k].UniverseId]

\* the slice one id too long: universe_ids[i:i + batch_size + 1]
BatchIdsOverlap(ids, from) ==
    SubSeq(ids, from + 1, Min(from + batch_size + 1, Len(ids)))

\* universe_ids[i:i + batch_size]
BatchIds(ids, from) == SubSeq(ids, from + 1, Min(from + batch_size, Len(ids)))

batch_ids == BatchIds(universe_ids, i)

\* the id comparison missing: the first basic record always matches
FirstMatchAny(basics, id) == IF Len(basics) = 0 THEN 0 ELSE 1

\* the break missing: the last basic record with the id wins
FirstMatchLast(basics, id) ==
    LET S == {k \in 1..Len(basics) : basics[k].UniverseId = id} IN
    IF S = {} THEN 0 ELSE CHOOSE k \in S : \A j \in S : k >= j

\* index of the first basic record with the id, 0 when there is none
FirstMatch(basics, id) ==
    LET S == {k \in 1..Len(basics) : basics[k].UniverseId = id} IN
    IF S = {} THEN 0 ELSE CHOOSE k \in S : \A j \in S : k <= j

\* detail.update({...}) with the three fields of the basic record
MergedRecord(detail, basic) ==
    [UniverseId  |-> detail.UniverseId,
     Name        |-> detail.Name,
     Genre       |-> detail.Genre,
     Visits      |-> detail.Visits,
     PlayerCount |-> basic.PlayerCount,
     Upvotes     |-> basic.Upvotes,
     Downvotes   |-> basic.Downvotes]

\* the two loops swapped: for basic in game_data: for detail in batch_data
MergeBatchByBasic(acc, batch_data, basics) ==
    LET DetailOf(id) ==
            LET S == {j \in 1..Len(batch_data) : batch_data[j].UniverseId = id}
            IN IF S = {} THEN 0 ELSE CHOOSE j \in S : \A h \in S : j <= h
        HasDetail(basic) == DetailOf(basic.UniverseId) # 0
        matched == SelectSeq(basics, HasDetail)
    IN acc \o [k \in 1..Len(matched) |->
                 MergedRecord(batch_data[DetailOf(matched[k].UniverseId)],
                              matched[k])]

\* for detail in batch_data: for basic in game_data: if the ids are equal,
\* update, append, break -- a detail without a match appends nothing
MergeBatch(acc, batch_data, basics) ==
    LET Matched(detail) == FirstMatch(basics, detail.UniverseId) # 0
        matched == SelectSeq(batch_data, Matched)
    IN acc \o [k \in 1..Len(matched) |->
                 MergedRecord(matched[k],
                     basics[FirstMatch(basics, matched[k].UniverseId)])]

\* for i in range(0, len(universe_ids), batch_size): the loop has a next batch
InLoop == pc = "scrape" /\ i < Len(universe_ids)

\* a 429 answer: fetch_game_details calls itself with the same universe_ids
DetailRetry ==
    /\ InLoop
    /\ \E resp \in DetailResponses(batch_ids, universe_ids, retries) :
         /\ RateLimited(resp.status)
         /\ detailCalls' = Append(detailCalls, [ids |-> batch_ids, resp |-> resp])
         /\ retries' = retries + 1
    /\ UNCHANGED <<pc, max_games, totalPages, listVars, basic_game_data, i,
                   games_data, detailed_games_data, csv, writes>>

\* an answer that makes fetch_game_details return a list: merge, next batch
DetailBatch ==
    /\ InLoop
    /\ \E resp \in DetailResponses(batch_ids, universe_ids, retries) :
         /\ ~RateLimited(resp.status)
         /\ ~DetailValue(resp).none
         /\ detailCalls' = Append(detailCalls, [ids |-> batch_ids, resp |-> resp])
         /\ games_data' = MergeBatch(games_data, DetailValue(resp).recs, game_data)
    /\ i' = i + batch_size
    /\ UNCHANGED <<pc, max_games, totalPages, listVars, basic_game_data,
                   retries, detailed_games_data, csv, writes>>

\* an answer that makes fetch_game_details return None: `for detail in
\* batch_data` raises TypeError, which nothing catches
DetailRaise ==
    /\ InLoop
    /\ \E resp \in DetailResponses(batch_ids, universe_ids, retries) :
         /\ ~RateLimited(resp.status)
         /\ DetailValue(resp).none
         /\ detailCalls' = Append(detailCalls, [ids |-> batch_ids, resp |-> resp])
    /\ pc' = "raised"
    /\ UNCHANGED <<max_games, totalPages, listVars, basic_game_data, i, retries,
                   games_data, detailed_games_data, csv, writes>>

\* return games_data
ScrapeReturn ==
    /\ pc = "scrape"
    /\ ~(i < Len(universe_ids))
    /\ detailed_games_data' = games_data
    /\ pc' = "save"
    /\ UNCHANGED <<max_games, totalPages, listVars, basic_game_data,
                   scrapeVars, csv, writes>>

\* the file written without __main__ moving on: it is written again
SaveToCsvAgain ==
    /\ pc = "save"
    /\ csv' = detailed_games_data
    /\ writes' = writes + 1
    /\ UNCHANGED <<pc, max_games, totalPages, listVars, basic_game_data,
                   scrapeVars, detailed_games_data>>

\* save_to_csv(detailed_games_data): one row per record, no index column
SaveToCsv ==
    /\ pc = "save"
    /\ csv' = detailed_games_data
    /\ writes' = writes + 1
    /\ pc' = "done"
    /\ UNCHANGED <<max_games, totalPages, listVars, basic_game_data,
                   scrapeVars, detailed_games_data>>

Next ==
    \/ FetchPage
    \/ FetchReturn
    \/ DetailRetry
    \/ DetailBatch
    \/ DetailRaise
    \/ ScrapeReturn
    \/ SaveToCsv

Spec == Init /\ [][Next]_vars

\* the interpreter runs the program to its end: a step that can be taken is
\* taken
FairSpec == Spec /\ WF_vars(Next)

\* ------------------------------------------------------- history helpers
\* fetch_game_ids_from_api has returned
FetchReturned == pc # "fetch_ids"

\* the detail requests that were answered with something other than 429:
\* each ends one call scrape_games makes to fetch_game_details
IsAnswer(call) == call.resp.status # 429
Answers == SelectSeq(detailCalls, IsAnswer)

\* ----------------------------------------------------------------- C1
\* C1: for every max_games >= 0 and every sequence of listing responses,
\* the sequence returned by fetch_game_ids_from_api has at most max_games
\* records.
C1_LengthAtMostMax ==
    FetchReturned => Len(basic_game_data) <= max_games

\* the accumulator overshot a positive max_games and the result was cut
C1_Witness ==
    /\ FetchReturned
    /\ max_games > 0
    /\ Len(all_game_data) > max_games
    /\ Len(basic_game_data) = max_games

\* ----------------------------------------------------------------- C2
\* C2: nothing is raised as a hard failure: every answered call of
\* fetch_game_details returns a sequence (possibly empty), for any status
\* and any body, so scrape_games iterates over it and the run never ends
\* with an exception.
C2_AlwaysReturnsSequence ==
    /\ \A k \in 1..Len(Answers) : ~DetailValue(Answers[k].resp).none
    /\ pc # "raised"

\* ----------------------------------------------------------------- C3
\* C3: a 429 answer makes fetch_game_details issue the request again with
\* the identical ids until a non-429 answer arrives; each batch costs one
\* request per 429 answer plus one, and what scrape_games merges is the
\* value determined by the first non-429 answer.
C3_Step ==
    LET n == Len(detailCalls') IN
    /\ \A k \in 1..(n - 1) :
         detailCalls'[k].resp.status = 429
            => detailCalls'[k + 1].ids = detailCalls'[k].ids
    /\ n = retries' + Len(SelectSeq(detailCalls', IsAnswer))
    /\ n = Len(detailCalls) + 1 =>
         LET resp == detailCalls'[n].resp IN
         IF resp.status = 429
           THEN games_data' = games_data /\ pc' = pc /\ i' = i
           ELSE \/ pc' = "raised"
                \/ games_data' = MergeBatch(games_data, DetailValue(resp).recs,
                                            game_data)

C3_RetrySameBatch == [][C3_Step]_vars

\* answers 429, 429, 200: three requests with the same ids, and the merged
\* records are those of the 200 payload
C3_Witness ==
    /\ Len(detailCalls) = 3
    /\ detailCalls[1].resp.status = 429
    /\ detailCalls[2].resp.status = 429
    /\ detailCalls[3].resp.status = 200
    /\ detailCalls[3].resp.kind = "list"
    /\ detailCalls[1].ids = detailCalls[3].ids
    /\ detailCalls[2].ids = detailCalls[3].ids
    /\ Len(detailCalls[3].ids) = 2
    /\ i = batch_size
    /\ Len(games_data) = 2
    /\ games_data = MergeBatch(<< >>, DetailValue(detailCalls[3].resp).recs,
                               game_data)

\* ----------------------------------------------------------------- C4
\* C4: the program always completes: whatever the two endpoints answer,
\* the run fetch list -> fetch details -> write eventually reaches the
\* state where the output file has been written.
C4_AlwaysWrites == <>(pc = "done")

\* ----------------------------------------------------------------- C5
\* C5: every record in the output of scrape_games has an id that is the id
\* of a record of the basic list and the id of a DetailRecord returned by a
\* detail fetch; an id whose batch returned empty or whose answer did not
\* contain it gives no output record, and no error: the run raises only
\* when a call returned None.
DetailIds(call) ==
    LET recs == DetailValue(call.resp).recs IN
    {recs[j].UniverseId : j \in 1..Len(recs)}

C5_MergedOnlyJoinedIds ==
    LET basicIds  == {universe_ids[k] : k \in 1..Len(universe_ids)}
        detailIds == UNION {DetailIds(Answers[k]) : k \in 1..Len(Answers)}
    IN /\ \A k \in 1..Len(games_data) :
            games_data[k].UniverseId \in basicIds \cap detailIds
       /\ pc = "raised" => DetailValue(detailCalls[Len(detailCalls)].resp).none

\* basics with ids [1, 2], one answer covering only id 1: exactly one
\* merged record, for id 1, and the file is written
C5_Witness ==
    /\ pc = "done"
    /\ universe_ids = <<1, 2>>
    /\ Len(Answers) = 1
    /\ DetailIds(Answers[1]) = {1}
    /\ Len(csv) = 1
    /\ csv[1].UniverseId = 1

\* ----------------------------------------------------------------- C6
\* C6: scrape_games partitions the ids of the basic list, in order, into
\* consecutive batches of batch_size: for n ids it makes exactly
\* ceil(n / batch_size) calls to fetch_game_details, call k carrying ids
\* (k-1)*batch_size+1 .. min(k*batch_size, n).
ScrapeEnded == pc \in {"save", "done", "raised"}

C6_BatchesPartitionIds ==
    ScrapeEnded =>
        LET n == Len(universe_ids) IN
        /\ Len(Answers) = (n + batch_size - 1) \div batch_size
        /\ \A k \in 1..Len(Answers) :
             Answers[k].ids = SubSeq(universe_ids, (k - 1) * batch_size + 1,
                                     Min(k * batch_size, n))

\* ----------------------------------------------------------------- C7
\* C7: fetch_game_ids_from_api never returns a record whose id was null or
\* absent in the payload, and an item without an id is skipped without
\* stopping the processing of the remaining items of the page: every item
\* with a positive id that is visited before a parse failure is appended.
PageAdded == Len(listResps') = Len(listResps) + 1

C7_Step ==
    /\ \A k \in 1..Len(all_game_data') : all_game_data'[k].UniverseId # Absent
    /\ \A k \in 1..Len(basic_game_data') : basic_game_data'[k].UniverseId # Absent
    /\ PageAdded =>
         LET resp  == listResps'[Len(listResps')]
             items == Flatten(resp.sorts)
             added == SubSeq(all_game_data', Len(all_game_data) + 1,
                             Len(all_game_data'))
         IN (resp.status = 200 /\ resp.parsable) =>
              \A k \in 1..Len(items) :
                 ((\A j \in 1..k : items[j].ok) /\ items[k].universeId > 0)
                    => \E j \in 1..Len(added) :
                          added[j].UniverseId = items[k].universeId

C7_NoNullId == [][C7_Step]_vars

\* a page whose second group starts with an item without id, followed by
\* the item with id 2: the record of id 2 was returned
C7_Witness ==
    /\ FetchReturned
    /\ Len(listResps) = 1
    /\ listResps[1].status = 200
    /\ listResps[1].sorts = SortsTwo
    /\ Len(basic_game_data) = 2
    /\ basic_game_data[2].UniverseId = 2

\* ----------------------------------------------------------------- C8
\* C8 as stated: when the first page of the listing carries no next cursor,
\* fetch_game_ids_from_api issues exactly one listing request, for every
\* max_games >= 0.
C8_ExactlyOneRequest ==
    (FetchReturned /\ totalPages = 1) => Len(listReqs) = 1

HasNextCursor(resp) ==
    resp.status = 200 /\ resp.parsable /\ resp.next # NoToken
        /\ resp.next # EmptyToken

\* C8 as amended: when the first page of the listing carries no next
\* cursor, exactly one listing request is issued for every max_games >= 1,
\* and none for max_games = 0; no listing request is ever issued after a
\* response that has no next cursor.
C8_OnePageWhenNoCursor ==
    /\ (FetchReturned /\ totalPages = 1 /\ max_games >= 1) => Len(listReqs) = 1
    /\ (FetchReturned /\ max_games = 0) => Len(listReqs) = 0
    /\ \A k \in 1..(Len(listResps) - 1) : HasNextCursor(listResps[k])

\* one well-formed page with records and no next cursor, fewer records than
\* max_games: the missing cursor alone ended the loop after one request
C8_Witness ==
    /\ FetchReturned
    /\ totalPages = 1
    /\ Len(listReqs) = 1
    /\ listResps[1].status = 200
    /\ listResps[1].parsable
    /\ listResps[1].next = NoToken
    /\ Len(all_game_data) > 0
    /\ Len(all_game_data) < max_games

\* ----------------------------------------------------------------- C9
RECURSIVE Accumulated(_)
\* the records of the pages of a sequence of listing responses
Accumulated(resps) ==
    IF resps = << >> THEN << >>
    ELSE LET n    == Len(resps)
             prev == Accumulated(SubSeq(resps, 1, n - 1))
         IN IF resps[n].status # 200 \/ ~resps[n].parsable THEN prev
            ELSE AppendGames(prev, Flatten(resps[n].sorts)).data

\* C9: a non-200 status on the listing endpoint ends pagination: no listing
\* request follows it, and the result is exactly the records accumulated
\* from the earlier pages, truncated to max_games.
C9_FailedPageEndsPagination ==
    LET n == Len(listResps) IN
    /\ \A k \in 1..n : listResps[k].status # 200 => k = n
    /\ (FetchReturned /\ n >= 1 /\ listResps[n].status # 200) =>
          basic_game_data =
              Slice(Accumulated(SubSeq(listResps, 1, n - 1)), max_games)
    /\ (n >= 1 /\ listResps[n].status # 200) => broke

\* a first page with records and a cursor, then a 500 answer with a
\* well-formed body: the result is the records of the first page only
C9_Witness ==
    /\ FetchReturned
    /\ Len(listResps) = 2
    /\ listResps[2].status = 500
    /\ listResps[2].parsable
    /\ listResps[1].sorts = SortsDup
    /\ Len(basic_game_data) = 2
    /\ max_games > 2

\* ----------------------------------------------------------------- C10
\* C10: a non-200 status other than 429 on the detail endpoint is fatal to
\* that batch only: the call returns an empty sequence without a retry (no
\* record is merged, the merged records of earlier batches are kept), and
\* scrape_games goes on with the next batch: the request that follows, if
\* any, carries the ids of the following batch.
DetailFailed(call) == call.resp.status # 200 /\ call.resp.status # 429

C10_Step ==
    LET n == Len(detailCalls') IN
    /\ n = Len(detailCalls) + 1 /\ DetailFailed(detailCalls'[n]) =>
         /\ games_data' = games_data
         /\ retries' = retries
         /\ i' = i + batch_size
         /\ pc' = "scrape"
    /\ \A k \in 1..(n - 1) :
         DetailFailed(detailCalls'[k]) =>
            detailCalls'[k + 1].ids =
               BatchIds(universe_ids,
                        batch_size * Len(SelectSeq(SubSeq(detailCalls', 1, k),
                                                   IsAnswer)))

C10_FailedBatchOnly == [][C10_Step]_vars

\* three batches: the first merged, the second answered 500, the third
\* requested and merged, and the file holds the records of batches 1 and 3
C10_Witness ==
    /\ pc = "done"
    /\ Len(detailCalls) = 3
    /\ detailCalls[1].resp.status = 200
    /\ detailCalls[2].resp.status = 500
    /\ detailCalls[3].resp.status = 200
    /\ Len(detailCalls[1].ids) = batch_size
    /\ Len(detailCalls[3].ids) = 2 * LongLen - 2 * batch_size
    /\ Len(csv) = Len(detailCalls[1].ids) + Len(detailCalls[3].ids)

FirstN(s, n) == SubSeq(s, 1, IF n < Len(s) THEN n ELSE Len(s))

HasId(game) == game.universeId # Absent
HasNonZeroId(game) == game.universeId # Absent /\ game.universeId # 0

\* the page was answered with 200 and a body that response.json() parses
PageRead(resp) == resp.status = 200 /\ resp.parsable

\* every item of the page is a JSON object
PageWellFormed(resp) == \A k \in 1..Len(Flatten(resp.sorts)) :
                            Flatten(resp.sorts)[k].ok

RecordsOf(games) == [k \in 1..Len(games) |-> BasicRecord(games[k])]

RECURSIVE DiscoveredParsed(_)
\* the items with a non-null id of the successfully parsed pages, in page
\* order, then group order, then item order
DiscoveredParsed(resps) ==
    IF resps = << >> THEN << >>
    ELSE LET n    == Len(resps)
             prev == DiscoveredParsed(SubSeq(resps, 1, n - 1))
         IN IF PageRead(resps[n]) /\ PageWellFormed(resps[n])
              THEN prev \o RecordsOf(SelectSeq(Flatten(resps[n].sorts), HasId))
              ELSE prev

\* the items of a page that are visited before the first item that fails
BeforeFailure(games) ==
    LET bad  == {k \in 1..Len(games) : ~games[k].ok}
        last == IF bad = {} THEN Len(games)
                ELSE (CHOOSE k \in bad : \A j \in bad : k <= j) - 1
    IN SubSeq(games, 1, last)

RECURSIVE DiscoveredVisited(_)
\* the visited items with a non-null, non-zero id of the pages read
DiscoveredVisited(resps) ==
    IF resps = << >> THEN << >>
    ELSE LET n    == Len(resps)
             prev == DiscoveredVisited(SubSeq(resps, 1, n - 1))
         IN IF PageRead(resps[n])
              THEN prev \o RecordsOf(SelectSeq(
                       BeforeFailure(Flatten(resps[n].sorts)), HasNonZeroId))
              ELSE prev

C13_Step ==
    /\ listReqs' # listReqs => Len(all_game_data) < max_games
    /\ Len(all_game_data) >= max_games => listReqs' = listReqs

C13_NoRequestAtMax == [][C13_Step]_vars

\* a page with a next cursor brought the count to max_games or beyond: the
\* function returned without break and without another request
C13_Witness ==
    /\ FetchReturned
    /\ ~broke
    /\ max_games > 0
    /\ Len(listReqs) = 1
    /\ totalPages = 2
    /\ listResps[1].next = TokenOf(1)
    /\ sorts_page_token = TokenOf(1)
    /\ Len(all_game_data) >= max_games

\* ----------------------------------------------------------------- C14
\* the records a step appends to games_data
Added == SubSeq(games_data', Len(games_data) + 1, Len(games_data'))

\* C14: the first match wins: a merged record takes PlayerCount, Upvotes
\* and Downvotes from the earliest record of the basic list with its id,
\* and all its other fields from the DetailRecord.
C14_Step ==
    LET added == Added
        recs  == IF games_data' = games_data THEN << >>
                 ELSE DetailValue(detailCalls'[Len(detailCalls')].resp).recs
    IN
    \A k \in 1..Len(added) :
       LET r == added[k]
       IN /\ \E m \in 1..Len(game_data) :
               /\ game_data[m].UniverseId = r.UniverseId
               /\ \A j \in 1..(m - 1) : game_data[j].UniverseId # r.UniverseId
               /\ r.PlayerCount = game_data[m].PlayerCount
               /\ r.Upvotes = game_data[m].Upvotes
               /\ r.Downvotes = game_data[m].Downvotes
          /\ \E j \in 1..Len(recs) :
               /\ recs[j].UniverseId = r.UniverseId
               /\ r.Name = recs[j].Name
               /\ r.Genre = recs[j].Genre
               /\ r.Visits = recs[j].Visits

C14_FirstMatchWins == [][C14_Step]_vars

\* the basic list holds id 1 twice with different counts: the written
\* record of id 1 has the counts of the first and the name of the detail
C14_Witness ==
    /\ pc = "done"
    /\ universe_ids = <<1, 1>>
    /\ game_data[1].PlayerCount = 20
    /\ game_data[2].PlayerCount = 26
    /\ Len(csv) >= 1
    /\ csv[1].UniverseId = 1
    /\ csv[1].PlayerCount = 20
    /\ csv[1].Upvotes = 21
    /\ csv[1].Name = "detailed"

\* ----------------------------------------------------------------- C15
\* C15: the three stages run in strict sequence: no detail request is
\* issued before the last listing request has been answered, the output
\* file is written at most once and only after the last detail request has
\* been answered, and neither endpoint is called after the write.
C15_Step ==
    /\ listReqs' # listReqs => detailCalls = << >> /\ writes = 0
    /\ detailCalls' # detailCalls =>
          /\ pc = "scrape"
          /\ listReqs' = listReqs
          /\ writes = 0
    /\ writes' <= 1
    /\ writes' # writes =>
          /\ pc = "save"
          /\ ~(i < Len(universe_ids))
          /\ listReqs' = listReqs
          /\ detailCalls' = detailCalls
          /\ csv' = games_data
    /\ writes >= 1 =>
          /\ listReqs' = listReqs
          /\ detailCalls' = detailCalls
          /\ csv' = csv

C15_StrictSequence == [][C15_Step]_vars

\* two listing requests, then at least two detail requests, then one write
C15_Witness ==
    /\ pc = "done"
    /\ writes = 1
    /\ Len(listReqs) = 2
    /\ Len(detailCalls) >= 2
    /\ Len(csv) > 0

\* ----------------------------------------------------------------- C16
RECURSIVE TotalRecords(_)
\* the number of DetailRecords returned by a sequence of detail requests
TotalRecords(calls) ==
    IF calls = << >> THEN 0
    ELSE LET n == Len(calls) IN
         TotalRecords(SubSeq(calls, 1, n - 1))
            + Len(DetailValue(calls[n].resp).recs)

\* C16: each DetailRecord returned yields at most one merged record, so
\* the output never has more records than the DetailRecords returned over
\* all batches; the output is ordered by batch and, within a batch, by the
\* order of the detail response: a batch appends, behind the records of the
\* earlier batches, one record for each DetailRecord whose id is in the
\* basic list, in the order of the response.
C16_Step ==
    LET added    == Added
        recs     == IF detailCalls' = detailCalls THEN << >>
                    ELSE DetailValue(detailCalls'[Len(detailCalls')].resp).recs
        basicIds == {universe_ids[k] : k \in 1..Len(universe_ids)}
        InBasic(detail) == detail.UniverseId \in basicIds
        kept     == SelectSeq(recs, InBasic)
    IN
    /\ Len(games_data') >= Len(games_data)
    /\ SubSeq(games_data', 1, Len(games_data)) = games_data
    /\ Len(games_data') <= TotalRecords(detailCalls')
    /\ Len(added) = Len(kept)
    /\ \A k \in 1..Len(added) :
          /\ added[k].UniverseId = kept[k].UniverseId
          /\ added[k].Name = kept[k].Name
          /\ added[k].Genre = kept[k].Genre
          /\ added[k].Visits = kept[k].Visits

C16_OnePerDetailInOrder == [][C16_Step]_vars

\* basics with ids [1, 2] and an answer listing id 2 before id 1: the
\* output is in the order of the answer
C16_Witness ==
    /\ pc = "done"
    /\ universe_ids = <<1, 2>>
    /\ Len(Answers) = 1
    /\ Len(csv) = 2
    /\ csv[1].UniverseId = 2
    /\ csv[2].UniverseId = 1

\* ----------------------------------------------------------------- C17
IdsOf(recs) == [k \in 1..Len(recs) |-> recs[k].UniverseId]
Range(s) == {s[k] : k \in 1..Len(s)}
Distinct(s) == Cardinality(Range(s)) = Len(s)

\* the answer holds at most one record per id and only ids of its request
AnswerWithinBatch(call) ==
    LET ids == IdsOf(DetailValue(call.resp).recs) IN
    Distinct(ids) /\ Range(ids) \subseteq Range(call.ids)

\* C17: if the ids of the basic list are pairwise distinct and every detail
\* response holds at most one record per id and only ids of the requested
\* batch, the ids of the output of scrape_games are pairwise distinct.
C17_DistinctOutputIds ==
    (/\ FetchReturned
     /\ Distinct(universe_ids)
     /\ \A k \in 1..Len(detailCalls) : AnswerWithinBatch(detailCalls[k]))
        => Distinct(IdsOf(games_data))

\* 60 distinct ids in two batches, both answered within the batch: 60
\* output records with distinct ids
C17_Witness ==
    /\ pc = "done"
    /\ Len(universe_ids) = LongLen
    /\ Distinct(universe_ids)
    /\ Len(Answers) = 2
    /\ \A k \in 1..Len(detailCalls) : AnswerWithinBatch(detailCalls[k])
    /\ Len(csv) = LongLen
    /\ Distinct(IdsOf(csv))

\* without the distinctness of the basic ids: the listing returned an id on
\* two pages (fetch_game_ids_from_api does not deduplicate), the id fell
\* into two batches, every answer stayed within its batch, and the output
\* holds the id in two records
C17_DuplicateOutput ==
    /\ pc = "done"
    /\ ~Distinct(universe_ids)
    /\ \A k \in 1..Len(detailCalls) : AnswerWithinBatch(detailCalls[k])
    /\ ~Distinct(IdsOf(csv))

\* ----------------------------------------------------------------- C18
\* the page was read and one of its items failed to parse
FailedPartWay(resp) == PageRead(resp) /\ ~PageWellFormed(resp)

\* the records of the pages before the last response
EarlierRecords == DiscoveredVisited(SubSeq(listResps, 1, Len(listResps) - 1))

\* the records of the last page appended before its failure
PartialRecords ==
    RecordsOf(SelectSeq(
        BeforeFailure(Flatten(listResps[Len(listResps)].sorts)), HasNonZeroId))

LastFailedPartWay ==
    Len(listResps) >= 1 /\ FailedPartWay(listResps[Len(listResps)])

\* C18 as stated: when parsing a page fails part-way, the result contains
\* the records of all earlier pages and the records of the failing page
\* that were appended before the failure.
C18_PartialPageKept ==
    (FetchReturned /\ LastFailedPartWay) =>
        basic_game_data = EarlierRecords \o PartialRecords

\* C18 as amended: when parsing a page fails part-way, pagination stops and
\* the result is the records of all earlier pages followed by the records
\* of the failing page appended before the failure, cut to max_games; the
\* records of the earlier pages are all in the result.
C18_PartialPageKeptUpToMax ==
    /\ \A k \in 1..Len(listResps) :
          FailedPartWay(listResps[k]) => k = Len(listResps)
    /\ LastFailedPartWay =>
          /\ broke
          /\ all_game_data = EarlierRecords \o PartialRecords
    /\ (FetchReturned /\ LastFailedPartWay) =>
          /\ basic_game_data =
                FirstN(EarlierRecords \o PartialRecords, max_games)
          /\ Len(EarlierRecords) <= Len(basic_game_data)
          /\ SubSeq(basic_game_data, 1, Len(EarlierRecords)) = EarlierRecords

\* a first page with ids 1 and 2, a second page that fails after ids 3 and
\* 4: the result is ids 1, 2, 3, 4
C18_Witness ==
    /\ FetchReturned
    /\ Len(listResps) = 2
    /\ listResps[1].status = 200
    /\ listResps[1].sorts = SortsTwo
    /\ LastFailedPartWay
    /\ IdsOf(basic_game_data) = <<1, 2, 3, 4>>
====
